---- MODULE Spec2Model ----
(***************************************************************************)
(* A model of the parameter-expansion engine and of the job lifecycle it   *)
(* drives (simulacra.cluster.job_creation, the job-creation script and the *)
(* job-processing script).                                                 *)
(*                                                                         *)
(* The specifications share the variables; each one drives its own part of *)
(* the state and leaves the other parts at their idle values:              *)
(*   SpecExpand     expand_parameters, one action per loop iteration, and  *)
(*                  a caller that mutates the returned maps;               *)
(*   SpecCreate     the job-creation script, one action per statement;     *)
(*   SpecProcess    process_job, run repeatedly against one job directory; *)
(*   SpecLifecycle  the script, then process_job on the directory it made; *)
(*   SpecJobDir     the job directory functions, called on their own;      *)
(*   SpecManifest   write_parameters_info_to_file on a Parameter list;     *)
(*   SpecAsk        one call of ask_for_bool (SpecAskFair: with a user who *)
(*                  gives a valid answer sooner or later);                 *)
(*   SpecSum        sums of potentials built with +;                       *)
(*   SpecTimer      one BlockTimer, entered, left and printed;             *)
(*   SpecHarmonic   calls of SphericalHarmonic(l, m).                      *)
(***************************************************************************)
EXTENDS Integers, Sequences, FiniteSets, TLC

VARIABLES
    \* ---- expand_parameters ----
    parameters,   \* the argument: a sequence of Parameter records
    idx,          \* position of the `for par in parameters` loop (1-based)
    dicts,        \* the local `dicts`: a sequence of dict object identities
    dheap,        \* dict objects: identity -> mapping name -> value
    oheap,        \* mutable value objects: address -> observable content
    epc,          \* "idle" | "loop" | "returned" | "raised" | "mutated" | "assigned"
    touched,      \* index of the returned map the caller wrote through (0: none)
    \* ---- job-creation script ----
    cpc,          \* position in the script
    overwrite,    \* args.overwrite
    answers,      \* outcome of each confirmation gate: "none" | "yes" | "no"
    nspecs,       \* len(specs)
    printable,    \* whether repr() of every Parameter of the job succeeds
    failing,      \* index of the Specification whose save raises (-1: none)
    saved,        \* position of the loop of save_specifications
    disk,         \* the job directory on disk: path -> content
    disk0,        \* the job directory as the run found it
    fsops,        \* filesystem-mutating calls made by this run, in order
    exitcode,     \* exit status of the script (-1 while running)
    \* ---- process_job ----
    ppc,          \* position in process_job
    job_name,     \* argument
    jobs_dir,     \* argument (None: the empty path)
    files,        \* the files process_job reads and writes: path -> record
    outputs,      \* number of simulation results available in the job directory
    jp,           \* the local `jp`
    run,          \* number of the current process_job run
    origins,      \* how each run obtained its processor: "none" | "loaded" | "fresh"
    \* ---- the job directory functions called on their own ----
    called,       \* the function called last
    job_info,     \* outcome of the last write_job_info_to_file: the record written
    loaded,       \* outcome of the last load_job_info_from_file
    \* ---- one call of ask_for_bool ----
    apc,          \* "idle" | "asking" | "returned"
    ask_default,  \* the argument `default`
    heard,        \* what the user typed at each prompt of the call, in order
    ask_result,   \* the return value: "none" | "True" | "False"
    \* ---- sums of potentials ----
    lhs,          \* the value of the expression built so far
    terms,        \* its operands, from left to right
    \* ---- one BlockTimer ----
    wall_time_start, wall_time_end, wall_time_elapsed,   \* its attributes
    proc_time_start, proc_time_end, proc_time_elapsed,
    now,          \* the wall clock
    proc,         \* the process clock
    inside,       \* whether the program is inside a with block of the timer
    entered,      \* the wall clock when the latest with block was entered (-1: never)
    exited,       \* the wall clock when the latest with block was left (-1: never)
    tcalled,      \* the method of the timer called last
    printed,      \* what the last str(timer) reported
    \* ---- spherical harmonics ----
    harmonics,    \* the SphericalHarmonic instances that exist
    attempt       \* the last call SphericalHarmonic(l, m) and its outcome

evars == <<parameters, idx, dicts, dheap, oheap, epc, touched>>
cvars == <<cpc, overwrite, answers, nspecs, printable, failing, saved, disk, disk0, fsops, exitcode>>
pvars == <<ppc, job_name, jobs_dir, files, outputs, jp, run, origins>>
jvars == <<called, job_info, loaded>>
avars == <<apc, ask_default, heard, ask_result>>
svars == <<lhs, terms>>
tvars == <<wall_time_start, wall_time_end, wall_time_elapsed,
           proc_time_start, proc_time_end, proc_time_elapsed,
           now, proc, inside, entered, exited, tcalled, printed>>
hvars == <<harmonics, attempt>>
wvars == <<svars, tvars, hvars>>
uvars == <<jvars, avars, wvars>>
vars == <<evars, cvars, pvars, uvars>>

(***************************************************************************)
(* Bounds                                                                  *)
(***************************************************************************)
MaxParams == 3
MaxSims == 5
MaxRuns == 3
MaxAnswers == 3
MaxTerms == 4
MaxClock == 3
MaxL == 2
MaxInstances == 2

(***************************************************************************)
(* Values.  A value is a record [kind, n, items]:                          *)
(*   "int"    an immutable scalar n                                        *)
(*   "str"    an immutable string (n identifies it)                        *)
(*   "gen"    a generator: iterable, no __len__, cannot be deep-copied     *)
(*   "obj"    a reference to the mutable object at address n of oheap      *)
(*   "tuple"  an immutable finite sequence of the values in items          *)
(***************************************************************************)
IntV(n) == [kind |-> "int", n |-> n, items |-> <<>>]
StrV(n) == [kind |-> "str", n |-> n, items |-> <<>>]
GenV == [kind |-> "gen", n |-> 0, items |-> <<>>]
ObjV(a) == [kind |-> "obj", n |-> a, items |-> <<>>]
TupleV(s) == [kind |-> "tuple", n |-> 0, items |-> s]

\* the caller's two mutable objects live at addresses 1 and 2
CallerHeap == <<100, 200>>

\* (value, expandable) pairs a caller may put in a Parameter
ExpandableChoices ==
    {TupleV(<<>>), TupleV(<<IntV(1), IntV(2)>>),
     TupleV(<<IntV(10), IntV(20), IntV(30)>>), TupleV(<<ObjV(1), ObjV(2)>>),
     IntV(5), StrV(1), GenV}
FixedChoices ==
    {StrV(1), ObjV(1), TupleV(<<IntV(1), IntV(2)>>)}
ValueChoices ==
    {[value |-> v, expandable |-> TRUE] : v \in ExpandableChoices}
    \cup {[value |-> v, expandable |-> FALSE] : v \in FixedChoices}

\* Parameter.__init__
Parameter(name, value, expandable) ==
    [name |-> name, value |-> value, expandable |-> expandable]

\* names are interchangeable: the first Parameter is called "a", and each later
\* one reuses an earlier name or takes the first unused name of NameOrder
NameOrder == <<"a", "b", "c", "d", "e">>
Names == {NameOrder[i] : i \in 1..MaxParams}
NameRank(nm) == CHOOSE i \in DOMAIN NameOrder : NameOrder[i] = nm
CanonicalNames(nms) ==
    \A i \in DOMAIN nms :
        \/ \E j \in 1..(i - 1) : nms[j] = nms[i]
        \/ NameRank(nms[i]) = Cardinality({nms[j] : j \in 1..(i - 1)}) + 1

\* the Parameter lists of n Parameters given by a name list and a choice list
ParameterList(nms, vcs) ==
    [i \in DOMAIN nms |-> Parameter(nms[i], vcs[i].value, vcs[i].expandable)]

(***************************************************************************)
(* Python object model                                                     *)
(***************************************************************************)
NoValue == IntV(0)
EmptyDict == [k \in {} |-> NoValue]

\* faulty variant of SetItem: d.setdefault(key, value), the first write stands
SetItem_setdefault(d, key, value) ==
    [k \in (DOMAIN d) \cup {key} |-> IF k \in DOMAIN d THEN d[k] ELSE value]

\* d[key] = value
SetItem(d, key, value) ==
    [k \in (DOMAIN d) \cup {key} |-> IF k = key THEN value ELSE d[k]]

\* hasattr(value, '__iter__'), isinstance(value, str), hasattr(value, '__len__')
HasIter(value) == value.kind \in {"str", "gen", "tuple"}
IsStr(value) == value.kind = "str"
HasLen(value) == value.kind \in {"str", "tuple"}

\* the mutable objects reachable from a value, from a dict
Refs(value) ==
    IF value.kind = "obj" THEN {value.n}
    ELSE {value.items[i].n : i \in {j \in DOMAIN value.items : value.items[j].kind = "obj"}}
DictRefs(d) == UNION {Refs(d[k]) : k \in DOMAIN d}

\* copy.deepcopy raises TypeError on a generator
Uncopyable(d) == \E k \in DOMAIN d : d[k].kind = "gen"

\* the copy of the object at address a is the Rank-th object allocated after base
\* (one memo per deepcopy call: an object is copied once per copied dict)
Rank(S, a) == Cardinality({b \in S : b <= a})
Relocate(value, S, base) ==
    IF value.kind = "obj" THEN ObjV(base + Rank(S, value.n))
    ELSE IF value.kind = "tuple"
         THEN TupleV([i \in DOMAIN value.items |->
                        IF value.items[i].kind = "obj"
                        THEN ObjV(base + Rank(S, value.items[i].n))
                        ELSE value.items[i]])
         ELSE value

\* copy.deepcopy(d) with the heap oh: the new dict and the grown heap
deepcopy(d, oh) ==
    LET S == DictRefs(d)
        base == Len(oh)
    IN  [dict |-> [k \in DOMAIN d |-> Relocate(d[k], S, base)],
         oheap |-> oh \o [i \in 1..Cardinality(S) |->
                            oh[CHOOSE a \in S : Rank(S, a) = i]]]

(***************************************************************************)
(* Idle values of the three parts of the state                             *)
(***************************************************************************)
EIdle ==
    /\ parameters = <<>> /\ idx = 0 /\ dicts = <<>> /\ dheap = <<>>
    /\ oheap = <<>> /\ epc = "idle" /\ touched = 0

CIdle ==
    /\ cpc = "idle" /\ overwrite = FALSE /\ answers = <<>> /\ nspecs = 0
    /\ printable = FALSE /\ failing = -1 /\ saved = 0
    /\ disk = <<>> /\ disk0 = <<>> /\ fsops = <<>> /\ exitcode = -1

NoProcessor == [name |-> "", data |-> 0]
PIdle ==
    /\ ppc = "idle" /\ job_name = "" /\ jobs_dir = <<>> /\ files = <<>>
    /\ outputs = 0 /\ jp = NoProcessor /\ run = 0 /\ origins = <<>>

\* no call made yet
NoCall == [kind |-> "none", value |-> <<>>]
JIdle == called = "" /\ job_info = NoCall /\ loaded = NoCall
AIdle == apc = "idle" /\ ask_default = NoCall /\ heard = <<>> /\ ask_result = "none"
\* no expression built yet
NoTerm == [kind |-> "none", name |-> "", potentials |-> <<>>]
SIdle == lhs = NoTerm /\ terms = <<>>
\* None, a datetime, a timedelta, a float of seconds
None == [kind |-> "None", t |-> 0]
\* nothing printed
NoReport == [running |-> FALSE, start |-> None, end |-> None, elapsed |-> None, process |-> None]
TIdle ==
    /\ wall_time_start = None /\ wall_time_end = None /\ wall_time_elapsed = None
    /\ proc_time_start = None /\ proc_time_end = None /\ proc_time_elapsed = None
    /\ now = 0 /\ proc = 0 /\ inside = FALSE /\ entered = -1 /\ exited = -1
    /\ tcalled = "" /\ printed = NoReport
\* no call made yet
NoAttempt == [l |-> 0, m |-> 0, outcome |-> "none"]
HIdle == harmonics = {} /\ attempt = NoAttempt
WIdle == SIdle /\ TIdle /\ HIdle
UIdle == JIdle /\ AIdle /\ WIdle

(***************************************************************************)
(* expand_parameters                                                       *)
(***************************************************************************)
Range(s) == {s[i] : i \in DOMAIN s}

\* the test of line 74
IsExpanded(par) ==
    par.expandable /\ HasIter(par.value) /\ ~IsStr(par.value) /\ HasLen(par.value)

\* faulty variants of ReplicateSource, to test what the properties are sensitive
\* to: no replication; `for _ in range(k) for d in dicts`
ReplicateSource_once(ds, k) == ds
ReplicateSource_innerfirst(ds, k) ==
    [j \in 1..(Len(ds) * k) |-> ds[((j - 1) % Len(ds)) + 1]]

\* faulty variant of ReplicateSource: an empty sequence is skipped instead of
\* emptying the list
ReplicateSource_skipempty(ds, k) ==
    IF k = 0 THEN ds ELSE [j \in 1..(Len(ds) * k) |-> ds[((j - 1) \div k) + 1]]

\* `for d in dicts for _ in range(k)`: the dict each copy is taken from
ReplicateSource(ds, k) ==
    [j \in 1..(Len(ds) * k) |-> ds[((j - 1) \div k) + 1]]

RECURSIVE CopyEach(_, _, _, _, _)
CopyEach(src, j, dh, oh, out) ==
    IF j > Len(src) THEN [dicts |-> out, dheap |-> dh, oheap |-> oh]
    ELSE LET c == deepcopy(dh[src[j]], oh)
         IN  CopyEach(src, j + 1, Append(dh, c.dict), c.oheap, Append(out, Len(dh) + 1))

\* faulty variant of Replicate: the dicts are repeated, not copied
Replicate_alias(ds, k, dh, oh) ==
    [dicts |-> ReplicateSource(ds, k), dheap |-> dh, oheap |-> oh]

\* dicts = [deepcopy(d) for d in dicts for _ in range(len(par.value))]
Replicate(ds, k, dh, oh) == CopyEach(ReplicateSource(ds, k), 1, dh, oh, <<>>)

\* faulty variant of CycleItem: the sequence is not cycled, its last element repeats
CycleItem_clamp(items, j) == items[IF j <= Len(items) THEN j ELSE Len(items)]

\* the j-th element of itertools.cycle(items), j = 1, 2, ...
CycleItem(items, j) == items[((j - 1) % Len(items)) + 1]

\* faulty variant of ZipAssign: zip(dicts, par.value), which stops at the shorter one
ZipAssign_truncated(ds, dh, name, items) ==
    [x \in DOMAIN dh |->
        IF \E j \in DOMAIN ds : ds[j] = x /\ j <= Len(items)
        THEN LET last == CHOOSE j \in DOMAIN ds :
                            /\ ds[j] = x /\ j <= Len(items)
                            /\ \A j2 \in DOMAIN ds : (ds[j2] = x /\ j2 <= Len(items)) => j2 <= j
             IN  SetItem(dh[x], name, items[last])
        ELSE dh[x]]

\* for d, v in zip(dicts, itertools.cycle(par.value)): d[par.name] = v
\* (assignments happen in order: the last one made to a dict object stands;
\* the cycle of an empty sequence is empty, and zip then assigns nothing)
ZipAssign(ds, dh, name, items) ==
    [x \in DOMAIN dh |->
        IF x \in Range(ds) /\ items # <<>>
        THEN LET last == CHOOSE j \in DOMAIN ds :
                            ds[j] = x /\ \A j2 \in DOMAIN ds : ds[j2] = x => j2 <= j
             IN  SetItem(dh[x], name, CycleItem(items, last))
        ELSE dh[x]]

\* faulty variant of Broadcast: only the first dict receives the value
Broadcast_first(ds, dh, name, value) ==
    [x \in DOMAIN dh |->
        IF ds # <<>> /\ x = ds[1] THEN SetItem(dh[x], name, value) ELSE dh[x]]

\* for d in dicts: d[par.name] = par.value
Broadcast(ds, dh, name, value) ==
    [x \in DOMAIN dh |-> IF x \in Range(ds) THEN SetItem(dh[x], name, value) ELSE dh[x]]

\* line 70: dicts = [{}]
ExpandInit ==
    /\ \E n \in 0..MaxParams :
       \E nms \in {x \in [1..n -> Names] : CanonicalNames(x)} :
       \E vcs \in [1..n -> ValueChoices] :
          parameters = ParameterList(nms, vcs)
    /\ idx = 1
    /\ dicts = <<1>>
    /\ dheap = <<EmptyDict>>
    /\ oheap = CallerHeap
    /\ epc = "loop"
    /\ touched = 0

\* faulty variant of ExpandStep: the elements are taken off par.value as they
\* are handed out (`while par.value: v = par.value.pop(0)`), which leaves the
\* caller's sequence empty
ExpandStep_draining ==
    /\ epc = "loop" /\ idx <= Len(parameters)
    /\ IsExpanded(parameters[idx])
    /\ LET par == parameters[idx]
           k == Len(par.value.items)
       IN  IF k > 0 /\ \E i \in DOMAIN dicts : Uncopyable(dheap[dicts[i]])
           THEN /\ epc' = "raised"
                /\ UNCHANGED <<parameters, idx, dicts, dheap, oheap>>
           ELSE LET r == Replicate(dicts, k, dheap, oheap)
                IN  /\ dicts' = r.dicts
                    /\ dheap' = ZipAssign(r.dicts, r.dheap, par.name, par.value.items)
                    /\ oheap' = r.oheap
                    /\ idx' = idx + 1
                    /\ epc' = epc
                    /\ parameters' = [parameters EXCEPT ![idx].value = TupleV(<<>>)]
    /\ UNCHANGED <<touched, cvars, pvars, uvars>>

\* lines 74-77: one iteration of the loop, expandable branch
ExpandStep ==
    /\ epc = "loop" /\ idx <= Len(parameters)
    /\ IsExpanded(parameters[idx])
    /\ LET par == parameters[idx]
           k == Len(par.value.items)
       IN  IF k > 0 /\ \E i \in DOMAIN dicts : Uncopyable(dheap[dicts[i]])
           THEN /\ epc' = "raised"
                /\ UNCHANGED <<idx, dicts, dheap, oheap>>
           ELSE LET r == Replicate(dicts, k, dheap, oheap)
                IN  /\ dicts' = r.dicts
                    /\ dheap' = ZipAssign(r.dicts, r.dheap, par.name, par.value.items)
                    /\ oheap' = r.oheap
                    /\ idx' = idx + 1
                    /\ epc' = epc
    /\ UNCHANGED <<parameters, touched, cvars, pvars, uvars>>

\* lines 78-80: one iteration of the loop, broadcast branch
BroadcastStep ==
    /\ epc = "loop" /\ idx <= Len(parameters)
    /\ ~IsExpanded(parameters[idx])
    /\ dheap' = Broadcast(dicts, dheap, parameters[idx].name, parameters[idx].value)
    /\ idx' = idx + 1
    /\ UNCHANGED <<parameters, dicts, oheap, epc, touched, cvars, pvars, uvars>>

\* line 82: return dicts
Return ==
    /\ epc = "loop" /\ idx > Len(parameters)
    /\ epc' = "returned"
    /\ UNCHANGED <<parameters, idx, dicts, dheap, oheap, touched, cvars, pvars, uvars>>

\* the caller mutates, in place, a value object reached through the i-th returned map
MutateInPlace ==
    /\ epc = "returned"
    /\ \E i \in DOMAIN dicts : \E a \in DictRefs(dheap[dicts[i]]) :
          /\ oheap' = [oheap EXCEPT ![a] = @ + 1]
          /\ touched' = i
    /\ epc' = "mutated"
    /\ UNCHANGED <<parameters, idx, dicts, dheap, cvars, pvars, uvars>>

\* the caller assigns a new value to a key of the i-th returned map
AssignKey ==
    /\ epc = "returned"
    /\ \E i \in DOMAIN dicts : \E key \in DOMAIN dheap[dicts[i]] :
          /\ dheap' = [dheap EXCEPT ![dicts[i]] = SetItem(@, key, IntV(99))]
          /\ touched' = i
    /\ epc' = "assigned"
    /\ UNCHANGED <<parameters, idx, dicts, oheap, cvars, pvars, uvars>>

InitExpand == ExpandInit /\ CIdle /\ PIdle /\ UIdle
NextExpand == ExpandStep \/ BroadcastStep \/ Return \/ MutateInPlace \/ AssignKey
SpecExpand == InitExpand /\ [][NextExpand]_vars

(***************************************************************************)
(* Vocabulary of the properties of expand_parameters                       *)
(***************************************************************************)
\* the i-th map of the current list
Map(i) == dheap[dicts[i]]
Lookup(d, key) == IF key \in DOMAIN d THEN d[key] ELSE NoValue

\* what a reader sees of a value: a mutable object shows its content
Observe(value) ==
    IF value.kind = "obj" THEN [kind |-> "obj", n |-> oheap[value.n], items |-> <<>>]
    ELSE IF value.kind = "tuple"
         THEN TupleV([i \in DOMAIN value.items |->
                        IF value.items[i].kind = "obj"
                        THEN [kind |-> "obj", n |-> oheap[value.items[i].n], items |-> <<>>]
                        ELSE value.items[i]])
         ELSE value
View(i) == [k \in DOMAIN Map(i) |-> Observe(Map(i)[k])]

DistinctNames(ps) == \A i, j \in DOMAIN ps : i # j => ps[i].name # ps[j].name
ParamNames(ps) == {ps[i].name : i \in DOMAIN ps}

\* a Parameter flagged expandable whose value is a finite non-string sequence
IsExpandableSequence(par) == par.expandable /\ par.value.kind = "tuple"
ExpandedAt(ps) == {i \in DOMAIN ps : IsExpandableSequence(ps[i])}

RECURSIVE ProductOfLengths(_)
ProductOfLengths(ps) ==
    IF ps = <<>> THEN 1
    ELSE (IF IsExpandableSequence(Head(ps)) THEN Len(Head(ps).value.items) ELSE 1)
         * ProductOfLengths(Tail(ps))

\* C1: for Parameters with pairwise distinct names the returned list has as many
\* maps as the product of the lengths of the expanded sequences (1 if none, one
\* empty map for the empty list), every map has exactly the input names as
\* keys, and with nothing expanded the single map binds every name to its
\* original value.
ExpansionCountAndKeys ==
    (epc = "returned" /\ DistinctNames(parameters)) =>
        /\ Len(dicts) = ProductOfLengths(parameters)
        /\ \A i \in DOMAIN dicts : DOMAIN Map(i) = ParamNames(parameters)
        /\ ExpandedAt(parameters) = {} =>
              /\ Len(dicts) = 1
              /\ \A p \in DOMAIN parameters :
                    Lookup(Map(1), parameters[p].name) = parameters[p].value

ExpansionCountAndKeysWitness ==
    /\ epc = "returned" /\ DistinctNames(parameters)
    /\ Len(parameters) = 3
    /\ Cardinality(ExpandedAt(parameters)) = 2
    /\ Len(dicts) = 6

\* C2: with exactly one expanded Parameter, of length k, at any position, there
\* are k maps, the i-th binds that Parameter's name to the i-th element, and
\* every other Parameter's value appears unchanged in all k maps.
SingleExpandable ==
    (epc = "returned" /\ DistinctNames(parameters)
        /\ Cardinality(ExpandedAt(parameters)) = 1) =>
        LET p == CHOOSE q \in ExpandedAt(parameters) : TRUE
            items == parameters[p].value.items
        IN  /\ Len(dicts) = Len(items)
            /\ \A i \in DOMAIN dicts :
                  /\ i \in DOMAIN items
                  /\ Observe(Lookup(Map(i), parameters[p].name)) = Observe(items[i])
                  /\ \A q \in DOMAIN parameters \ {p} :
                        Observe(Lookup(Map(i), parameters[q].name))
                            = Observe(parameters[q].value)

\* a three-element sequence expandable and b = "x" fixed: three maps
SingleExpandableWitness ==
    /\ epc = "returned"
    /\ parameters = <<Parameter("a", TupleV(<<IntV(10), IntV(20), IntV(30)>>), TRUE),
                       Parameter("b", StrV(1), FALSE)>>
    /\ Len(dicts) = 3
    /\ View(3) = [k \in {"a", "b"} |-> IF k = "a" THEN IntV(30) ELSE StrV(1)]

\* C3: with two expanded Parameters of different lengths k1 (listed first) and
\* k2, there are k1*k2 maps and the map at index j (from 0) binds the first to
\* v1[j div k2] and the second to v2[j mod k2].
OuterVariesSlower ==
    (epc = "returned" /\ DistinctNames(parameters)
        /\ Cardinality(ExpandedAt(parameters)) = 2) =>
        LET p1 == CHOOSE q \in ExpandedAt(parameters) :
                     \A r \in ExpandedAt(parameters) : q <= r
            p2 == CHOOSE q \in ExpandedAt(parameters) : q # p1
            v1 == parameters[p1].value.items
            v2 == parameters[p2].value.items
        IN  Len(v1) # Len(v2) =>
              /\ Len(dicts) = Len(v1) * Len(v2)
              /\ \A j \in 0..(Len(dicts) - 1) :
                    /\ Observe(Lookup(Map(j + 1), parameters[p1].name))
                          = Observe(v1[(j \div Len(v2)) + 1])
                    /\ Observe(Lookup(Map(j + 1), parameters[p2].name))
                          = Observe(v2[(j % Len(v2)) + 1])

\* two expanded Parameters of lengths 3 and 2 around a fixed one
OuterVariesSlowerWitness ==
    /\ epc = "returned" /\ DistinctNames(parameters)
    /\ Len(parameters) = 3
    /\ ExpandedAt(parameters) = {1, 3}
    /\ Len(parameters[1].value.items) = 3
    /\ Len(parameters[3].value.items) = 2
    /\ Len(dicts) = 6

\* the scenario of C4; the two Parameters carry the first two names
CyclingScenario ==
    <<Parameter("a", TupleV(<<IntV(1), IntV(2)>>), TRUE),
      Parameter("b", TupleV(<<IntV(10), IntV(20), IntV(30)>>), TRUE)>>
\* the values a name takes, read in output order
Column(name) == [i \in DOMAIN dicts |-> Lookup(Map(i), name).n]

\* C4 as stated: the scenario yields 6 maps in which the first Parameter takes
\* 1,2,1,2,1,2 and the second takes 10,10,20,20,30,30.
ScenarioFirstVariesFaster ==
    (epc = "returned" /\ parameters = CyclingScenario) =>
        /\ Len(dicts) = 6
        /\ Column("a") = <<1, 2, 1, 2, 1, 2>>
        /\ Column("b") = <<10, 10, 20, 20, 30, 30>>

\* C4 as amended: the scenario yields 6 maps in which the first Parameter takes
\* 1,1,1,2,2,2 and the second takes 10,20,30,10,20,30.
ScenarioFirstVariesSlower ==
    (epc = "returned" /\ parameters = CyclingScenario) =>
        /\ Len(dicts) = 6
        /\ Column("a") = <<1, 1, 1, 2, 2, 2>>
        /\ Column("b") = <<10, 20, 30, 10, 20, 30>>

ScenarioWitness ==
    epc = "returned" /\ parameters = CyclingScenario /\ Len(dicts) = 6

\* the elements of every expanded sequence are pairwise distinct
DistinctElements(ps) ==
    \A p \in ExpandedAt(ps) :
        \A i, j \in DOMAIN ps[p].value.items :
            i # j => Observe(ps[p].value.items[i]) # Observe(ps[p].value.items[j])

\* C5: the returned maps are exactly the Cartesian product of the expanded
\* sequences: every combination occurs in exactly one map and every map
\* carries a combination, whatever the interleaving and the lengths.
\* (Stated by counting: every map carries a combination, no two maps carry the
\* same one, and there are as many maps as combinations.)
FullCartesianProduct ==
    (epc = "returned" /\ DistinctNames(parameters) /\ DistinctElements(parameters)) =>
        LET E == ExpandedAt(parameters)
            Elements(p) == {Observe(parameters[p].value.items[i]) :
                               i \in DOMAIN parameters[p].value.items}
            Carried(j) == [p \in E |-> Observe(Lookup(Map(j), parameters[p].name))]
        IN  /\ \A j \in DOMAIN dicts : \A p \in E : Carried(j)[p] \in Elements(p)
            /\ Cardinality({Carried(j) : j \in DOMAIN dicts}) = Len(dicts)
            /\ Len(dicts) = ProductOfLengths(parameters)

\* three expanded Parameters, the middle one the longest
FullCartesianProductWitness ==
    /\ epc = "returned" /\ DistinctNames(parameters) /\ DistinctElements(parameters)
    /\ ExpandedAt(parameters) = {1, 2, 3}
    /\ Len(parameters[1].value.items) = 2
    /\ Len(parameters[2].value.items) = 3
    /\ Len(parameters[3].value.items) = 2
    /\ Len(dicts) = 12

\* C6: an in-place mutation of a value reached through one returned map is
\* not observable through any other returned map.
MutationIsolated ==
    [][(epc = "returned" /\ epc' = "mutated" /\ DistinctNames(parameters)) =>
          \A j \in DOMAIN dicts : j # touched' => View(j)' = View(j)]_vars

\* C7: assigning a new value to a key of one returned map leaves every binding
\* of every other returned map unchanged.
AssignmentIsolated ==
    [][(epc = "returned" /\ epc' = "assigned") =>
          \A j \in DOMAIN dicts : j # touched' => Map(j)' = Map(j)]_vars

\* a key of one of several returned maps has been reassigned
AssignmentIsolatedWitness ==
    /\ epc = "assigned" /\ Len(dicts) >= 4 /\ touched = 2
    /\ \E key \in DOMAIN Map(2) : Map(2)[key] = IntV(99)

(***************************************************************************)
(* ask_for_bool: strings are sequences of characters                       *)
(***************************************************************************)
UpperCase == <<"A", "B", "C", "D", "E", "F", "G", "H", "I", "J", "K", "L", "M",
               "N", "O", "P", "Q", "R", "S", "T", "U", "V", "W", "X", "Y", "Z">>
LowerCase == <<"a", "b", "c", "d", "e", "f", "g", "h", "i", "j", "k", "l", "m",
               "n", "o", "p", "q", "r", "s", "t", "u", "v", "w", "x", "y", "z">>
\* str.lower, str.replace(' ', '')
LowerChar(c) ==
    IF \E i \in DOMAIN UpperCase : UpperCase[i] = c
    THEN LowerCase[CHOOSE i \in DOMAIN UpperCase : UpperCase[i] = c]
    ELSE c
Lower(str) == [i \in DOMAIN str |-> LowerChar(str[i])]
NotSpace(c) == c # " "
RemoveSpaces(str) == SelectSeq(str, NotSpace)

\* a default is a string or a bool
StrD(str) == [kind |-> "str", s |-> str, b |-> FALSE]
BoolD(b) == [kind |-> "bool", s |-> <<>>, b |-> b]

\* lines 153 and 155
TrueSynonyms ==
    {StrD(<<"t", "r", "u", "e">>), StrD(<<"t">>), StrD(<<"y", "e", "s">>), StrD(<<"y">>),
     StrD(<<"1">>), StrD(<<"o", "n">>), BoolD(TRUE)}
FalseSynonyms ==
    {StrD(<<"f", "a", "l", "s", "e">>), StrD(<<"f">>), StrD(<<"n", "o">>), StrD(<<"n">>),
     StrD(<<"0">>), StrD(<<"o", "f", "f">>), BoolD(FALSE)}

\* faulty variant of ask_for_bool: whatever is not a yes is a no
ask_for_bool_lenient(input_str, default_) ==
    LET stripped == Lower(RemoveSpaces(input_str))
        trimmed == IF stripped = <<>> THEN default_ ELSE StrD(stripped)
    IN  IF trimmed \in TrueSynonyms THEN "True" ELSE "False"

\* lines 144-161, one pass: "True", "False", or "raise" when the ValueError is
\* caught and the question is asked again
ask_for_bool(input_str, default) ==
    LET stripped == Lower(RemoveSpaces(input_str))
        trimmed == IF stripped = <<>> THEN default ELSE StrD(stripped)
    IN  IF trimmed \in TrueSynonyms THEN "True"
        ELSE IF trimmed \in FalseSynonyms THEN "False"
        ELSE "raise"

\* what the user may type at a prompt
UserInputs ==
    {<<"y">>, <<" ", "Y", "e", "s">>, <<"n">>, <<"N", "o", " ">>, <<>>, <<" ">>,
     <<"m", "a", "y", "b", "e">>}
\* default = 'No'
DefaultNo == StrD(<<"N", "o">>)

(***************************************************************************)
(* The job directory: a map from paths below job_dir to contents           *)
(***************************************************************************)
Dir == [kind |-> "dir", data |-> <<>>]
File(data) == [kind |-> "file", data |-> data]
NoDisk == [p \in {} |-> Dir]

IsPrefix(p, q) == Len(p) <= Len(q) /\ SubSeq(q, 1, Len(p)) = p
Prefixes(p) == {SubSeq(p, 1, n) : n \in 0..Len(p)}

\* os.path.exists
Exists(d, path) == path \in DOMAIN d
\* shutil.rmtree(path, ignore_errors = True)
Rmtree(d, path) == [p \in {q \in DOMAIN d : ~IsPrefix(path, q)} |-> d[p]]
\* Path.mkdir(parents = True, exist_ok = True)
Mkdir(d, path) ==
    [p \in (DOMAIN d) \cup Prefixes(path) |-> IF p \in DOMAIN d THEN d[p] ELSE Dir]
\* open(mode = 'w') and write: the parent directory must exist
CanWrite(d, path) ==
    /\ path # <<>>
    /\ Exists(d, SubSeq(path, 1, Len(path) - 1))
    /\ d[SubSeq(path, 1, Len(path) - 1)].kind = "dir"
WriteFile(d, path, data) ==
    [p \in (DOMAIN d) \cup {path} |-> IF p = path THEN File(data) ELSE d[p]]

JobDir == <<>>
OldJob ==
    [p \in {<<>>, <<"inputs">>, <<"inputs", "0">>, <<"info.pkl">>, <<"notes.txt">>} |->
        IF p \in {<<>>, <<"inputs">>} THEN Dir ELSE File(<<"old">>)]
\* what the run may find at job_dir: nothing, an empty directory, an earlier job
DiskChoices == {NoDisk, [p \in {<<>>} |-> Dir], OldJob}

(***************************************************************************)
(* The job-creation script                                                 *)
(***************************************************************************)
NoAnswers == [overwrite |-> "none", spec |-> "none", submit |-> "none"]

CreateInit ==
    /\ cpc = "collision"
    /\ overwrite \in BOOLEAN
    /\ answers = NoAnswers
    /\ nspecs = 0
    /\ printable = FALSE
    /\ failing = -1
    /\ saved = 0
    /\ disk \in DiskChoices
    /\ disk0 = disk
    /\ fsops = <<>>
    /\ exitcode = -1

\* job_creation.py lines 201-205: sys.exit(0)
abort_job_creation == cpc' = "aborted" /\ exitcode' = 0
\* an exception leaves the script
Crash == cpc' = "crashed" /\ exitcode' = 1

\* lines 43-44: no collision, or --overwrite given (the prompt is not evaluated)
NoCollisionPrompt ==
    /\ cpc = "collision"
    /\ ~Exists(disk, JobDir) \/ overwrite
    /\ cpc' = "generate"
    /\ UNCHANGED <<overwrite, answers, nspecs, printable, failing, saved, disk, disk0,
                   fsops, exitcode, evars, pvars, uvars>>

\* faulty variant of AskOverwrite: the answer is read the wrong way round
AskOverwrite_inverted ==
    /\ cpc = "collision"
    /\ Exists(disk, JobDir) /\ ~overwrite
    /\ \E input \in UserInputs :
          LET answer == ask_for_bool(input, DefaultNo)
          IN  \/ /\ answer = "raise"
                 /\ UNCHANGED <<cpc, answers, exitcode>>
              \/ /\ answer = "False"
                 /\ answers' = [answers EXCEPT !.overwrite = "no"]
                 /\ cpc' = "generate"
                 /\ UNCHANGED exitcode
              \/ /\ answer = "True"
                 /\ answers' = [answers EXCEPT !.overwrite = "yes"]
                 /\ abort_job_creation
    /\ UNCHANGED <<overwrite, nspecs, printable, failing, saved, disk, disk0, fsops,
                   evars, pvars, uvars>>

\* lines 43-45: the overwrite prompt
AskOverwrite ==
    /\ cpc = "collision"
    /\ Exists(disk, JobDir) /\ ~overwrite
    /\ \E input \in UserInputs :
          LET answer == ask_for_bool(input, DefaultNo)
          IN  \/ /\ answer = "raise"
                 /\ UNCHANGED <<cpc, answers, exitcode>>
              \/ /\ answer = "True"
                 /\ answers' = [answers EXCEPT !.overwrite = "yes"]
                 /\ cpc' = "generate"
                 /\ UNCHANGED exitcode
              \/ /\ answer = "False"
                 /\ answers' = [answers EXCEPT !.overwrite = "no"]
                 /\ abort_job_creation
    /\ UNCHANGED <<overwrite, nspecs, printable, failing, saved, disk, disk0, fsops,
                   evars, pvars, uvars>>

\* lines 47-132: the user's inputs decide how many Specifications there are,
\* whether every Parameter can be printed and whether some save will fail
GenerateSpecs ==
    /\ cpc = "generate"
    /\ nspecs' \in 0..MaxSims
    /\ printable' \in BOOLEAN
    /\ failing' \in -1..(nspecs' - 1)
    /\ cpc' = "spec_check"
    /\ UNCHANGED <<overwrite, answers, saved, disk, disk0, fsops, exitcode, evars, pvars, uvars>>

\* faulty variant of SpecificationCheck: a negative answer does not abort
SpecificationCheck_noabort ==
    /\ cpc = "spec_check"
    /\ \E input \in UserInputs :
          LET check == ask_for_bool(input, DefaultNo)
          IN  \/ /\ check = "raise"
                 /\ UNCHANGED <<cpc, answers>>
              \/ /\ check = "True"
                 /\ answers' = [answers EXCEPT !.spec = "yes"]
                 /\ cpc' = "submit_check"
              \/ /\ check = "False"
                 /\ answers' = [answers EXCEPT !.spec = "no"]
                 /\ cpc' = "submit_check"
    /\ UNCHANGED <<overwrite, nspecs, printable, failing, saved, disk, disk0, fsops,
                   exitcode, evars, pvars, uvars>>

\* line 134; job_creation.py lines 257-268
SpecificationCheck ==
    /\ cpc = "spec_check"
    /\ \E input \in UserInputs :
          LET check == ask_for_bool(input, DefaultNo)
          IN  \/ /\ check = "raise"
                 /\ UNCHANGED <<cpc, answers, exitcode>>
              \/ /\ check = "True"
                 /\ answers' = [answers EXCEPT !.spec = "yes"]
                 /\ cpc' = "submit_check"
                 /\ UNCHANGED exitcode
              \/ /\ check = "False"
                 /\ answers' = [answers EXCEPT !.spec = "no"]
                 /\ abort_job_creation
    /\ UNCHANGED <<overwrite, nspecs, printable, failing, saved, disk, disk0, fsops,
                   evars, pvars, uvars>>

\* lines 136-137: submit_check, a gate like specification_check
SubmitCheck ==
    /\ cpc = "submit_check"
    /\ \E input \in UserInputs :
          LET check == ask_for_bool(input, DefaultNo)
          IN  \/ /\ check = "raise"
                 /\ UNCHANGED <<cpc, answers, exitcode>>
              \/ /\ check = "True"
                 /\ answers' = [answers EXCEPT !.submit = "yes"]
                 /\ cpc' = "rmtree"
                 /\ UNCHANGED exitcode
              \/ /\ check = "False"
                 /\ answers' = [answers EXCEPT !.submit = "no"]
                 /\ abort_job_creation
    /\ UNCHANGED <<overwrite, nspecs, printable, failing, saved, disk, disk0, fsops,
                   evars, pvars, uvars>>

\* line 141: shutil.rmtree(job_dir, ignore_errors = True)
RemoveOldJob ==
    /\ cpc = "rmtree"
    /\ disk' = Rmtree(disk, JobDir)
    /\ fsops' = Append(fsops, "rmtree")
    /\ cpc' = "subdirs"
    /\ UNCHANGED <<overwrite, answers, nspecs, printable, failing, saved, disk0,
                   exitcode, evars, pvars, uvars>>

\* job_creation.py lines 212-215: job_dir.mkdir, then one mkdir per subdir
Subdirs == <<"inputs", "outputs", "logs">>
\* faulty variant of CreateJobSubdirs: the directory is made afresh
CreateJobSubdirs_afresh(d) ==
    Mkdir(Mkdir(Mkdir(Mkdir(Rmtree(d, JobDir), JobDir), <<Subdirs[1]>>), <<Subdirs[2]>>),
          <<Subdirs[3]>>)

CreateJobSubdirs(d) ==
    Mkdir(Mkdir(Mkdir(Mkdir(d, JobDir), <<Subdirs[1]>>), <<Subdirs[2]>>), <<Subdirs[3]>>)

\* line 143; job_creation.py lines 208-215
create_job_subdirs ==
    /\ cpc = "subdirs"
    /\ disk' = CreateJobSubdirs(disk)
    /\ fsops' = Append(fsops, "mkdir")
    /\ cpc' = "save"
    /\ UNCHANGED <<overwrite, answers, nspecs, printable, failing, saved, disk0,
                   exitcode, evars, pvars, uvars>>

\* faulty variant of save_specifications: every Specification carries the same
\* file_name
save_specifications_samename ==
    /\ cpc = "save"
    /\ IF saved < nspecs
       THEN IF saved = failing \/ ~CanWrite(disk, <<"inputs", ToString(0)>>)
            THEN Crash /\ UNCHANGED <<saved, disk, fsops>>
            ELSE /\ disk' = WriteFile(disk, <<"inputs", ToString(0)>>, <<"spec", ToString(saved)>>)
                 /\ fsops' = Append(fsops, "write")
                 /\ saved' = saved + 1
                 /\ UNCHANGED <<cpc, exitcode>>
       ELSE /\ cpc' = "specs_info"
            /\ UNCHANGED <<saved, disk, fsops, exitcode>>
    /\ UNCHANGED <<overwrite, answers, nspecs, printable, failing, disk0, evars, pvars, uvars>>

\* faulty variant of save_specifications: the script moves on after the first
\* Specification instead of waiting for the whole batch
save_specifications_first ==
    /\ cpc = "save"
    /\ IF saved < nspecs /\ saved = 0
       THEN IF saved = failing \/ ~CanWrite(disk, <<"inputs", ToString(saved)>>)
            THEN Crash /\ UNCHANGED <<saved, disk, fsops>>
            ELSE /\ disk' = WriteFile(disk, <<"inputs", ToString(saved)>>, <<"spec", ToString(saved)>>)
                 /\ fsops' = Append(fsops, "write")
                 /\ saved' = saved + 1
                 /\ UNCHANGED <<cpc, exitcode>>
       ELSE /\ cpc' = "specs_info"
            /\ UNCHANGED <<saved, disk, fsops, exitcode>>
    /\ UNCHANGED <<overwrite, answers, nspecs, printable, failing, disk0, evars, pvars, uvars>>

\* line 144; job_creation.py lines 222-223: one iteration of the loop; the
\* Specification of index ii has file_name str(ii) (line 128); an exception
\* raised by spec.save leaves the loop and the script
save_specifications ==
    /\ cpc = "save"
    /\ IF saved < nspecs
       THEN IF saved = failing \/ ~CanWrite(disk, <<"inputs", ToString(saved)>>)
            THEN Crash /\ UNCHANGED <<saved, disk, fsops>>
            ELSE /\ disk' = WriteFile(disk, <<"inputs", ToString(saved)>>, <<"spec", ToString(saved)>>)
                 /\ fsops' = Append(fsops, "write")
                 /\ saved' = saved + 1
                 /\ UNCHANGED <<cpc, exitcode>>
       ELSE /\ cpc' = "specs_info"
            /\ UNCHANGED <<saved, disk, fsops, exitcode>>
    /\ UNCHANGED <<overwrite, answers, nspecs, printable, failing, disk0, evars, pvars, uvars>>

\* line 145; job_creation.py lines 228-242
write_specifications_info_to_file ==
    /\ cpc = "specs_info"
    /\ IF CanWrite(disk, <<"specifications.txt">>)
       THEN /\ disk' = WriteFile(disk, <<"specifications.txt">>, <<"info", ToString(nspecs)>>)
            /\ fsops' = Append(fsops, "write")
            /\ cpc' = "params_info"
            /\ UNCHANGED exitcode
       ELSE Crash /\ UNCHANGED <<disk, fsops>>
    /\ UNCHANGED <<overwrite, answers, nspecs, printable, failing, saved, disk0, evars, pvars, uvars>>

\* what iterating over a value yields: the elements of a sequence, the
\* characters of a string (the strings here have one), what a generator
\* produces; an int cannot be iterated over
Iterable(value) == value.kind \in {"tuple", "str", "gen"}
Yields(value) ==
    IF value.kind = "tuple" THEN value.items
    ELSE IF value.kind = "str" THEN <<value>>
    ELSE <<IntV(0), IntV(1), IntV(2)>>

\* Parameter.__repr__, job_creation.py lines 42-50: the block of a Parameter,
\* its name and the values it lists; the expandable branch iterates over
\* self.value whatever it is
ReprRaises(par) == par.expandable /\ ~Iterable(par.value)
Repr(par) ==
    [name |-> par.name,
     expandable |-> par.expandable,
     listed |-> IF par.expandable THEN Yields(par.value) ELSE <<par.value>>]
\* '\n'.join(repr(param) for param in parameters), line 250
Printable(ps) == \A i \in DOMAIN ps : ~ReprRaises(ps[i])
ParametersText(ps) == [i \in DOMAIN ps |-> Repr(ps[i])]

\* line 146; job_creation.py lines 245-254: the text is built with repr(param)
\* (lines 42-50) before the file is opened; printable stands for the
\* Parameters of the script that are not in `parameters`
write_parameters_info_to_file ==
    /\ cpc = "params_info"
    /\ IF printable /\ Printable(parameters) /\ CanWrite(disk, <<"parameters.txt">>)
       THEN /\ disk' = WriteFile(disk, <<"parameters.txt">>, ParametersText(parameters))
            /\ fsops' = Append(fsops, "write")
            /\ cpc' = "job_info"
            /\ UNCHANGED exitcode
       ELSE Crash /\ UNCHANGED <<disk, fsops>>
    /\ UNCHANGED <<overwrite, answers, nspecs, printable, failing, saved, disk0, evars, pvars, uvars>>

\* Python objects as far as lines 148-153 look at them: a class, an instance of
\* a class, a str
ClassObj(name) == [kind |-> "class", name |-> name]
Instance(cls) == [kind |-> "instance", name |-> cls.name]
NameStr(name) == [kind |-> "str", name |-> name]
\* an int, known by its decimal digits
IntObj(n) == [kind |-> "int", name |-> ToString(n)]
\* obj.__class__: the class of an instance, `type` for a class, `str` for a str
ClassOf(obj) ==
    IF obj.kind = "instance" THEN ClassObj(obj.name)
    ELSE IF obj.kind = "class" THEN ClassObj("type")
    ELSE ClassObj("str")
\* cls.__name__
NameOf(cls) == NameStr(cls.name)
\* callable(obj): a class can be called, a str cannot
Callable(obj) == obj.kind = "class"

\* line 39: job_processor = ion.cluster.IonizationJobProcessor
job_processor == ClassObj("IonizationJobProcessor")
\* specs[0] and specs[0].electric_potential
FirstSpec == Instance(ClassObj("Specification"))
FirstPotential == Instance(ClassObj("SincPulse"))

\* the record of lines 148-153; job_processor is a class, so
\* job_processor.__class__.__name__ is the name of its metaclass
JobInfoOf(n) ==
    [name |-> NameStr("job"),
     job_processor_type |-> NameOf(ClassOf(job_processor)),
     number_of_sims |-> IntObj(n),
     specification_type |-> NameOf(ClassOf(FirstSpec)),
     external_potential_type |-> NameOf(ClassOf(FirstPotential))]
JobInfo == JobInfoOf(nspecs)

\* pickle.dump(job_info, file, protocol = -1): the dict as a stream of
\* operations, one per item in insertion order, each carrying the key, the
\* opcode for the type of the value and its argument, closed by STOP
InfoKeys ==
    <<"name", "job_processor_type", "number_of_sims", "specification_type",
      "external_potential_type">>
Opcode(obj) ==
    IF obj.kind = "str" THEN "BINUNICODE"
    ELSE IF obj.kind = "int" THEN "BININT"
    ELSE "GLOBAL"
Stop == [key |-> "", op |-> "STOP", arg |-> ""]
Pickle(info) ==
    [i \in 1..Len(InfoKeys) |->
        [key |-> InfoKeys[i], op |-> Opcode(info[InfoKeys[i]]), arg |-> info[InfoKeys[i]].name]]
    \o <<Stop>>

\* pickle.load(file): the object described by the operations up to the first
\* STOP; what follows it in the file is not read
HasStop(data) == \E i \in DOMAIN data : data[i].op = "STOP"
FirstStop(data) ==
    CHOOSE i \in DOMAIN data : data[i].op = "STOP" /\ \A j \in 1..(i - 1) : data[j].op # "STOP"
Operand(item) ==
    [kind |-> IF item.op = "BINUNICODE" THEN "str"
              ELSE IF item.op = "BININT" THEN "int" ELSE "class",
     name |-> item.arg]
Unpickle(data) ==
    LET n == FirstStop(data) - 1
    IN  [k \in {data[i].key : i \in 1..n} |->
            Operand(data[CHOOSE i \in 1..n :
                            data[i].key = k /\ \A j \in 1..n : data[j].key = k => j <= i])]

\* lines 148-154; job_creation.py lines 271-275; specs[0] raises IndexError
\* when there is no Specification
write_job_info_to_file ==
    /\ cpc = "job_info"
    /\ IF nspecs > 0 /\ CanWrite(disk, <<"info.pkl">>)
       THEN /\ disk' = WriteFile(disk, <<"info.pkl">>, Pickle(JobInfo))
            /\ fsops' = Append(fsops, "write")
            /\ cpc' = "submit_file"
            /\ UNCHANGED exitcode
       ELSE Crash /\ UNCHANGED <<disk, fsops>>
    /\ UNCHANGED <<overwrite, answers, nspecs, printable, failing, saved, disk0, evars, pvars, uvars>>

\* line 156: write_submit_file, then the script ends
write_submit_file ==
    /\ cpc = "submit_file"
    /\ IF CanWrite(disk, <<"submit_job.sub">>)
       THEN /\ disk' = WriteFile(disk, <<"submit_job.sub">>, <<"submit", ToString(nspecs)>>)
            /\ fsops' = Append(fsops, "write")
            /\ cpc' = "done"
            /\ exitcode' = 0
       ELSE Crash /\ UNCHANGED <<disk, fsops>>
    /\ UNCHANGED <<overwrite, answers, nspecs, printable, failing, saved, disk0, evars, pvars, uvars>>

InitCreate == EIdle /\ CreateInit /\ PIdle /\ UIdle
NextCreate ==
    \/ NoCollisionPrompt \/ AskOverwrite \/ GenerateSpecs \/ SpecificationCheck
    \/ SubmitCheck \/ RemoveOldJob \/ create_job_subdirs \/ save_specifications
    \/ write_specifications_info_to_file \/ write_parameters_info_to_file
    \/ write_job_info_to_file \/ write_submit_file
SpecCreate == InitCreate /\ [][NextCreate]_vars

\* a gate has been answered no
Refused ==
    answers.overwrite = "no" \/ answers.spec = "no" \/ answers.submit = "no"

\* C8: a negative answer at any confirmation gate ends the run through
\* abort_job_creation with exit status 0 and before any filesystem mutation:
\* nothing was removed, created or written.
RefusalAbortsWithoutSideEffects ==
    Refused => /\ cpc = "aborted"
               /\ exitcode = 0
               /\ fsops = <<>>
               /\ disk = disk0

\* the run found an earlier job, the overwrite was accepted and the
\* Specifications were then refused
RefusalWitness ==
    /\ cpc = "aborted" /\ disk0 = OldJob
    /\ answers.overwrite = "yes" /\ answers.spec = "no"

\* C9: a pre-existing job directory is removed only with --overwrite or a yes
\* to the overwrite prompt and only after the specification check and the
\* submit check were answered yes, and every creation or write in the job
\* directory happens after that removal.
RemovalOnlyAfterConsent ==
    [][/\ (Exists(disk0, JobDir) /\ disk # disk' /\ \E p \in DOMAIN disk : p \notin DOMAIN disk') =>
            /\ overwrite \/ answers.overwrite = "yes"
            /\ answers.spec = "yes" /\ answers.submit = "yes"
       /\ (\E p \in DOMAIN disk' : p \notin DOMAIN disk \/ disk'[p] # disk[p]) =>
            /\ "rmtree" \in Range(fsops)
            /\ fsops[1] = "rmtree"]_vars

\* an earlier job was replaced by a complete new one after a yes to the prompt
RemovalWitness ==
    /\ cpc = "done" /\ disk0 = OldJob /\ ~overwrite /\ answers.overwrite = "yes"
    /\ <<"notes.txt">> \notin DOMAIN disk
    /\ <<"info.pkl">> \in DOMAIN disk

(***************************************************************************)
(* process_job (ionization/scripts/sync_and_process.py)                    *)
(***************************************************************************)
\* os.getcwd()
Cwd == <<"work">>
\* os.path.join
Join(dir, name) == Append(dir, name)

\* a file holds a job_info record or a pickled processor; ok tells whether the
\* stored job_processor_type is callable, resp. whether the pickle loads
InfoFile(callable) == [kind |-> "info", ok |-> callable, name |-> "", data |-> 0]
ProcessorFile(p) == [kind |-> "job", ok |-> TRUE, name |-> p.name, data |-> p.data]
CorruptFile == [kind |-> "job", ok |-> FALSE, name |-> "", data |-> 0]

\* lines 32-34
JobsDir == IF jobs_dir = <<>> THEN Cwd ELSE jobs_dir
ProcessJobDir == Join(JobsDir, job_name)
\* job_creation.py line 280
InfoPath == Join(ProcessJobDir, "info.pkl")
\* line 39
LoadPath == Join(ProcessJobDir, job_name \o ".job")
\* line 47: jp.save(target_dir = ...) writes <target_dir>/<name>.job
SaveTargetDir == Join(Cwd, "job_processors")
SavePath(p) == Join(SaveTargetDir, p.name \o ".job")

JobNames == {"j", "job_processors"}
JobsDirs == {<<>>, <<"jobs">>}

ProcessInit ==
    /\ ppc = "ready"
    /\ job_name \in JobNames
    /\ jobs_dir \in JobsDirs
    /\ \E info \in {<<>>, <<InfoFile(TRUE)>>, <<InfoFile(FALSE)>>} :
       \E old \in {<<>>, <<CorruptFile>>, <<ProcessorFile([name |-> job_name, data |-> 0])>>} :
          files = [p \in {InfoPath : i \in DOMAIN info} \cup {LoadPath : i \in DOMAIN old} |->
                      IF p = InfoPath THEN info[1] ELSE old[1]]
    /\ outputs = 0
    /\ jp = NoProcessor
    /\ run = 0
    /\ origins = <<>>

\* process_job is called (line 54), again after every pass of the outer loop
StartRun ==
    /\ ppc \in {"ready", "finished", "failed"}
    /\ run < MaxRuns
    /\ run' = run + 1
    /\ origins' = Append(origins, "none")
    /\ jp' = NoProcessor
    /\ ppc' = "load_info"
    /\ UNCHANGED <<job_name, jobs_dir, files, outputs, evars, cvars, uvars>>

\* a simulation of the job finishes on the cluster
SimulationFinishes ==
    /\ ppc # "idle"
    /\ outputs < MaxSims
    /\ outputs' = outputs + 1
    /\ UNCHANGED <<ppc, job_name, jobs_dir, files, jp, run, origins, evars, cvars, uvars>>

\* line 36: job_info = clu.load_job_info_from_file(job_dir)
LoadJobInfo ==
    /\ ppc = "load_info"
    /\ ppc' = IF InfoPath \in DOMAIN files THEN "load_jp" ELSE "failed"
    /\ UNCHANGED <<job_name, jobs_dir, files, outputs, jp, run, origins, evars, cvars, uvars>>

\* faulty variant of ObtainProcessor: `except Exception`, a record that does not
\* load is replaced by a fresh processor
ObtainProcessor_replace ==
    /\ ppc = "load_jp"
    /\ IF LoadPath \in DOMAIN files /\ files[LoadPath].ok
       THEN /\ jp' = [name |-> files[LoadPath].name, data |-> files[LoadPath].data]
            /\ origins' = [origins EXCEPT ![run] = "loaded"]
            /\ ppc' = "process"
       ELSE IF files[InfoPath].ok
            THEN /\ jp' = [name |-> job_name, data |-> 0]
                 /\ origins' = [origins EXCEPT ![run] = "fresh"]
                 /\ ppc' = "process"
            ELSE /\ ppc' = "failed"
                 /\ UNCHANGED <<jp, origins>>
    /\ UNCHANGED <<job_name, jobs_dir, files, outputs, run, evars, cvars, uvars>>

\* faulty variant of ObtainProcessor: the persisted processor is ignored and a
\* fresh one is constructed on every run
ObtainProcessor_fresh ==
    /\ ppc = "load_jp"
    /\ IF files[InfoPath].ok
       THEN /\ jp' = [name |-> job_name, data |-> 0]
            /\ origins' = [origins EXCEPT ![run] = "fresh"]
            /\ ppc' = "process"
       ELSE /\ ppc' = "failed"
            /\ UNCHANGED <<jp, origins>>
    /\ UNCHANGED <<job_name, jobs_dir, files, outputs, run, evars, cvars, uvars>>

\* lines 38-43: load, or construct on FileNotFoundError
ObtainProcessor ==
    /\ ppc = "load_jp"
    /\ IF LoadPath \in DOMAIN files
       THEN IF files[LoadPath].ok
            THEN /\ jp' = [name |-> files[LoadPath].name, data |-> files[LoadPath].data]
                 /\ origins' = [origins EXCEPT ![run] = "loaded"]
                 /\ ppc' = "process"
            ELSE /\ ppc' = "failed"
                 /\ UNCHANGED <<jp, origins>>
       ELSE IF files[InfoPath].ok
            THEN /\ jp' = [name |-> job_name, data |-> 0]
                 /\ origins' = [origins EXCEPT ![run] = "fresh"]
                 /\ ppc' = "process"
            ELSE /\ ppc' = "failed"
                 /\ UNCHANGED <<jp, origins>>
    /\ UNCHANGED <<job_name, jobs_dir, files, outputs, run, evars, cvars, uvars>>

\* line 45: jp.process_job(force_reprocess = False) aggregates the results
\* that are available and not yet processed
ProcessResults ==
    /\ ppc = "process"
    /\ jp' = [jp EXCEPT !.data = IF outputs > @ THEN outputs ELSE @]
    /\ ppc' = "save"
    /\ UNCHANGED <<job_name, jobs_dir, files, outputs, run, origins, evars, cvars, uvars>>

\* line 47: jp.save(target_dir = os.path.join(os.getcwd(), 'job_processors'))
SaveProcessor ==
    /\ ppc = "save"
    /\ files' = [p \in (DOMAIN files) \cup {SavePath(jp)} |->
                    IF p = SavePath(jp) THEN ProcessorFile(jp) ELSE files[p]]
    /\ ppc' = "finished"
    /\ UNCHANGED <<job_name, jobs_dir, outputs, jp, run, origins, evars, cvars, uvars>>

InitProcess == EIdle /\ CIdle /\ ProcessInit /\ UIdle
NextProcess ==
    \/ StartRun \/ SimulationFinishes \/ LoadJobInfo \/ ObtainProcessor
    \/ ProcessResults \/ SaveProcessor
SpecProcess == InitProcess /\ [][NextProcess]_vars

(***************************************************************************)
(* The life of one job: the job-creation script materializes the directory, *)
(* the directory is mirrored below jobs_dir, process_job runs on it.        *)
(***************************************************************************)
\* pickle.dump then pickle.load of the job_info record (job_creation.py lines
\* 271-282): a str comes back as a str, so what process_job can call is what
\* the script stored
LoadedInfo(data) == InfoFile(Callable(Unpickle(data).job_processor_type))

\* lines 24-27 and 51: the finished script's directory appears as
\* <jobs_dir>/<job_name>, holding the info.pkl that the script wrote
MirrorJob ==
    /\ cpc = "done" /\ ppc = "idle"
    /\ \E jn \in JobNames : \E jd \in JobsDirs :
          /\ job_name' = jn
          /\ jobs_dir' = jd
          /\ files' = [p \in {Join(Join(IF jd = <<>> THEN Cwd ELSE jd, jn), "info.pkl")} |->
                          LoadedInfo(disk[<<"info.pkl">>].data)]
    /\ ppc' = "ready"
    /\ UNCHANGED <<outputs, jp, run, origins, evars, cvars, uvars>>

\* on a directory that holds no persisted processor a run ends at line 42 or
\* goes on to lines 45-47; which one is what ObtainProcessor decides
InitLifecycle == InitCreate
NextLifecycle ==
    \/ NoCollisionPrompt \/ AskOverwrite \/ GenerateSpecs \/ SpecificationCheck
    \/ SubmitCheck \/ RemoveOldJob \/ create_job_subdirs \/ save_specifications
    \/ write_specifications_info_to_file \/ write_parameters_info_to_file
    \/ write_job_info_to_file \/ write_submit_file
    \/ MirrorJob \/ StartRun \/ SimulationFinishes \/ LoadJobInfo \/ ObtainProcessor
SpecLifecycle == InitLifecycle /\ [][NextLifecycle]_vars

\* C10: after a first run that found no persisted processor, created one,
\* processed and saved it, the second run obtains its processor through the
\* load path and constructs no fresh one.
SecondRunLoads ==
    (run >= 2 /\ origins[1] = "fresh" /\ origins[2] # "none") => origins[2] = "loaded"


\* C11: load is preferred over create.  process_job constructs a fresh processor
\* only when <job_dir>/<job_name>.job is not found, and then it does (the
\* stored job_processor_type being callable); when the file exists and loads,
\* the run takes the loaded processor, processing keeps its aggregated results,
\* and the processor saved is that one.
LoadPreferredOverCreate ==
    [][/\ (ppc = "load_jp" /\ ppc' # ppc) =>
            /\ origins'[run] = "fresh" => LoadPath \notin DOMAIN files
            /\ (LoadPath \notin DOMAIN files /\ files[InfoPath].ok) =>
                  /\ origins'[run] = "fresh"
                  /\ jp' = [name |-> job_name, data |-> 0]
            /\ (LoadPath \in DOMAIN files /\ files[LoadPath].ok) =>
                  /\ origins'[run] = "loaded"
                  /\ jp' = [name |-> files[LoadPath].name, data |-> files[LoadPath].data]
       /\ (ppc = "process" /\ ppc' # ppc /\ origins[run] = "loaded") =>
            /\ jp'.name = jp.name /\ jp'.data >= jp.data
            /\ origins' = origins
       /\ (ppc = "save" /\ ppc' # ppc /\ origins[run] = "loaded") =>
            /\ jp' = jp
            /\ files'[SavePath(jp)] = ProcessorFile(jp)]_vars

\* a second run loaded the processor that the first run had constructed,
\* processed results with it and saved it
LoadPreferredWitness ==
    /\ run = 2 /\ ppc = "finished"
    /\ origins[1] = "fresh" /\ origins[2] = "loaded"
    /\ jp.data >= 1
    /\ files[SavePath(jp)] = ProcessorFile(jp)


\* the persisted record exists and does not deserialize
CorruptRecord == LoadPath \in DOMAIN files /\ files[LoadPath] = CorruptFile

\* C12: when the persisted record exists but does not load, process_job ends
\* with the error: the step that tries to load it fails the run, no processor
\* is obtained (neither loaded nor fresh), the run never reaches processing or
\* saving, and no file is written, so the record stays as it was.
CorruptRecordSurfaces ==
    [][CorruptRecord =>
          /\ (ppc = "load_jp" /\ ppc' # ppc) => ppc' = "failed"
          /\ ppc' \notin {"process", "save", "finished"}
          /\ run' >= 1 => origins'[run'] = "none"
          /\ jp' = NoProcessor
          /\ files' = files]_vars

\* two runs in a row stopped at the record that does not load
CorruptRecordWitness ==
    /\ CorruptRecord /\ ppc = "failed" /\ run = 2
    /\ InfoPath \in DOMAIN files /\ files[InfoPath].ok
    /\ origins = <<"none", "none">>


\* the value names the class, or is the class
Identifies(value, cls) == value = cls \/ value = NameOf(cls)

\* C13: a materialized job directory is self-describing: the
\* job_processor_type persisted in info.pkl identifies the processor type
\* selected in the script, and a run of process_job on the directory, finding
\* no persisted processor, constructs a fresh one by calling that value.
SelfDescribing ==
    /\ (cpc = "done" /\ <<"info.pkl">> \in DOMAIN disk) =>
          Identifies(Unpickle(disk[<<"info.pkl">>].data).job_processor_type, job_processor)
    /\ (cpc = "done" /\ run >= 1 /\ ppc \notin {"load_info", "load_jp"}) =>
          /\ ppc = "process"
          /\ origins[run] = "fresh"
          /\ jp.name = job_name


\* C14: when the save of one Specification of a batch fails, every other
\* Specification of the batch is still saved and the failure is collected, not
\* raised: once the batch is over, inputs/ holds a file for every index but the
\* failing one (indices 0, 1, 3 and 4 of 5 when index 2 fails) and
\* save_specifications has returned.
BatchSaveIsolatesFailures ==
    (failing >= 0 /\ cpc \notin {"collision", "generate", "spec_check", "submit_check",
                                 "aborted", "rmtree", "subdirs", "save"}) =>
        /\ cpc # "crashed"
        /\ \A i \in 0..(nspecs - 1) :
              i # failing => Exists(disk, <<"inputs", ToString(i)>>)

\* a Parameter flagged expandable whose value is a scalar, a string or a
\* generator
FlaggedNonSequence(par) == par.expandable /\ par.value.kind \in {"int", "str", "gen"}

\* C15: a Parameter flagged expandable whose value is not a finite non-string
\* sequence is treated as non-expandable: expand_parameters does not raise, the
\* Parameter does not change the number of maps, and every map binds its name
\* to the unchanged value.
NonSequenceIsBroadcast ==
    (epc \in {"returned", "raised"} /\ DistinctNames(parameters)
        /\ \E p \in DOMAIN parameters : FlaggedNonSequence(parameters[p])) =>
        /\ epc = "returned"
        /\ Len(dicts) = ProductOfLengths(parameters)
        /\ \A p \in DOMAIN parameters :
              FlaggedNonSequence(parameters[p]) =>
                 \A i \in DOMAIN dicts :
                    Lookup(Map(i), parameters[p].name) = parameters[p].value


\* a Parameter flagged expandable whose value is the empty sequence
IsEmptyExpandable(par) == IsExpandableSequence(par) /\ par.value.items = <<>>

\* C16: an expandable Parameter with an empty sequence collapses the expansion
\* to zero maps wherever it sits: from the iteration that meets it on, the list
\* is empty, whatever the later Parameters are (expanded or fixed, any names),
\* nothing raises, and the empty list is what is returned.
EmptyCollapses ==
    (\E p \in 1..(idx - 1) : IsEmptyExpandable(parameters[p])) =>
        dicts = <<>> /\ epc # "raised"

\* an empty sequence between two non-empty expanded ones: nothing is returned
EmptyCollapsesWitness ==
    /\ epc = "returned" /\ Len(parameters) = 3
    /\ IsExpandableSequence(parameters[1]) /\ Len(parameters[1].value.items) = 2
    /\ IsEmptyExpandable(parameters[2])
    /\ IsExpandableSequence(parameters[3]) /\ Len(parameters[3].value.items) = 3
    /\ dicts = <<>>


\* C17: a name collision is a configuration error: the expansion of a list in
\* which two Parameters share a name fails and no output map is retained.
NameCollisionFails ==
    (epc \in {"returned", "raised"} /\ ~DistinctNames(parameters)) => epc = "raised"

\* the last Parameter of the list that carries the name
LastOf(ps, name) ==
    CHOOSE p \in DOMAIN ps :
        ps[p].name = name /\ \A q \in DOMAIN ps : ps[q].name = name => q <= p
\* what the Parameter at position p contributes to the j-th returned map: its
\* value, or, expanded, the element it cycles to, each element standing for as
\* many consecutive maps as the later expanded Parameters multiply it into
Stride(ps, p) == ProductOfLengths(SubSeq(ps, p + 1, Len(ps)))
Contributed(ps, p, j) ==
    IF IsExpandableSequence(ps[p])
    THEN ps[p].value.items[(((j - 1) \div Stride(ps, p)) % Len(ps[p].value.items)) + 1]
    ELSE ps[p].value

\* C18: when two Parameters share a name, every returned map binds that name
\* to the value contributed by the later-listed one (its value if it is
\* broadcast, its element for that map if it is expanded), for every
\* combination of the flags of the two.
LastWriteWins ==
    (epc = "returned" /\ ~DistinctNames(parameters)) =>
        \A j \in DOMAIN dicts :
            /\ DOMAIN Map(j) = ParamNames(parameters)
            /\ \A name \in ParamNames(parameters) :
                  Observe(Lookup(Map(j), name))
                      = Observe(Contributed(parameters, LastOf(parameters, name), j))

\* one name carried by an expanded Parameter, then a fixed one, then an
\* expanded one of another length: the maps carry the elements of the last
LastWriteWinsWitness ==
    /\ epc = "returned" /\ Len(parameters) = 3
    /\ \A p \in DOMAIN parameters : parameters[p].name = "a"
    /\ IsExpandableSequence(parameters[1]) /\ Len(parameters[1].value.items) = 2
    /\ ~parameters[2].expandable
    /\ IsExpandableSequence(parameters[3]) /\ Len(parameters[3].value.items) = 3
    /\ Len(dicts) = 6
    /\ Column("a") = <<10, 20, 30, 10, 20, 30>>


\* the job directory as a finished run leaves it
CompleteJobDir(d) ==
    /\ {<<>>, <<"inputs">>, <<"outputs">>, <<"logs">>, <<"specifications.txt">>,
        <<"parameters.txt">>, <<"info.pkl">>, <<"submit_job.sub">>} \subseteq DOMAIN d
    /\ d[<<"info.pkl">>] = File(Pickle(JobInfo))

\* C19: a configuration error leaves no partial job directory: when the
\* expansion yields zero Specifications, the script ends either with nothing
\* removed or created on disk, or with a complete job directory including
\* info.pkl.
NoPartialJobDir ==
    (nspecs = 0 /\ cpc \in {"aborted", "crashed", "done"}) =>
        \/ disk = disk0 /\ fsops = <<>>
        \/ CompleteJobDir(disk)

\* the Specification files of the job directory
InputFiles(d) == {p \in DOMAIN d : Len(p) = 2 /\ p[1] = "inputs"}

\* C20: in every batch the script produces, the i-th Specification is saved
\* under the identifier str(i), the identifiers are pairwise distinct, and the
\* persisted number_of_sims equals the number of Specifications generated,
\* which equals the number of files in inputs/.
IdentifiersAndCounts ==
    /\ cpc \in {"save", "specs_info", "params_info", "job_info", "submit_file", "done"} =>
          /\ InputFiles(disk) = {<<"inputs", ToString(i)>> : i \in 0..(saved - 1)}
          /\ \A i \in 0..(saved - 1) :
                disk[<<"inputs", ToString(i)>>] = File(<<"spec", ToString(i)>>)
          /\ Cardinality(InputFiles(disk)) = saved
    /\ cpc \in {"submit_file", "done"} =>
          /\ saved = nspecs
          /\ Unpickle(disk[<<"info.pkl">>].data).number_of_sims = IntObj(nspecs)
          /\ Unpickle(disk[<<"info.pkl">>].data).number_of_sims
                = IntObj(Cardinality(InputFiles(disk)))

\* a batch of five replaced an earlier job
IdentifiersAndCountsWitness ==
    /\ cpc = "done" /\ disk0 = OldJob /\ nspecs = 5
    /\ Cardinality(InputFiles(disk)) = 5
    /\ Unpickle(disk[<<"info.pkl">>].data).number_of_sims = IntObj(5)


(***************************************************************************)
(* The job directory functions of job_creation.py, called on their own in   *)
(* any order on a directory in any state                                   *)
(***************************************************************************)
\* the outcome of a call: a value, or an exception
Returned(value) == [kind |-> "ok", value |-> value]
Raised == [kind |-> "raise", value |-> <<>>]

\* job_info records a caller may pass: those of the script for one and for
\* twelve Specifications, and one that names another job and holds the class
InfoChoices ==
    {JobInfoOf(1), JobInfoOf(12),
     [JobInfoOf(3) EXCEPT !.name = NameStr("other"), !.job_processor_type = job_processor]}

\* what the functions may find at job_dir: nothing, or a directory holding any
\* of the subdirectories, possibly a Specification file, a foreign file and an
\* earlier info.pkl
JobDirChoices ==
    {NoDisk} \cup
    {[p \in {<<>>} \cup {<<sd>> : sd \in S} \cup F |->
         IF p = <<"info.pkl">> THEN File(Pickle(JobInfoOf(2)))
         ELSE IF p \in {<<"notes.txt">>, <<"inputs", "0">>} THEN File(<<"old">>)
         ELSE Dir] :
       S \in SUBSET {"inputs", "outputs", "logs"},
       F \in SUBSET {<<"notes.txt">>, <<"info.pkl">>}}
    \cup {OldJob}

JobDirInit ==
    /\ cpc = "library"
    /\ overwrite = FALSE /\ answers = <<>> /\ nspecs = 0 /\ printable = FALSE
    /\ failing = -1 /\ saved = 0 /\ fsops = <<>> /\ exitcode = -1
    /\ disk \in JobDirChoices
    /\ disk0 = disk
    /\ JIdle

\* create_job_subdirs(job_dir), lines 208-215
CallCreateJobSubdirs ==
    /\ cpc = "library"
    /\ disk' = CreateJobSubdirs(disk)
    /\ called' = "create_job_subdirs"
    /\ UNCHANGED <<cpc, overwrite, answers, nspecs, printable, failing, saved, disk0,
                   fsops, exitcode, job_info, loaded, avars, wvars, evars, pvars>>

\* faulty variant of WriteJobInfo: the file is opened in mode 'ab'
WriteJobInfo_append(d, info) ==
    WriteFile(d, <<"info.pkl">>,
              (IF Exists(d, <<"info.pkl">>) THEN d[<<"info.pkl">>].data ELSE <<>>)
                  \o Pickle(info))

\* lines 273-275: open(mode = 'wb') truncates, pickle.dump writes the stream
WriteJobInfo(d, info) == WriteFile(d, <<"info.pkl">>, Pickle(info))

\* write_job_info_to_file(job_info, job_dir), lines 271-275: open raises when
\* job_dir does not exist
CallWriteJobInfo ==
    /\ cpc = "library"
    /\ \E info \in InfoChoices :
          IF CanWrite(disk, <<"info.pkl">>)
          THEN /\ disk' = WriteJobInfo(disk, info)
               /\ job_info' = Returned(info)
          ELSE /\ job_info' = Raised
               /\ UNCHANGED disk
    /\ called' = "write_job_info_to_file"
    /\ UNCHANGED <<cpc, overwrite, answers, nspecs, printable, failing, saved, disk0,
                   fsops, exitcode, loaded, avars, wvars, evars, pvars>>

\* load_job_info_from_file(job_dir), lines 278-282: open raises when there is
\* no info.pkl, pickle.load raises on an empty or foreign file
CallLoadJobInfo ==
    /\ cpc = "library"
    /\ loaded' = IF Exists(disk, <<"info.pkl">>) /\ disk[<<"info.pkl">>].kind = "file"
                    /\ disk[<<"info.pkl">>].data # <<"old">>
                    /\ HasStop(disk[<<"info.pkl">>].data)
                 THEN Returned(Unpickle(disk[<<"info.pkl">>].data))
                 ELSE Raised
    /\ called' = "load_job_info_from_file"
    /\ UNCHANGED <<cpc, overwrite, answers, nspecs, printable, failing, saved, disk, disk0,
                   fsops, exitcode, job_info, avars, wvars, evars, pvars>>

InitJobDir == EIdle /\ JobDirInit /\ PIdle /\ AIdle /\ WIdle
NextJobDir == CallCreateJobSubdirs \/ CallWriteJobInfo \/ CallLoadJobInfo
SpecJobDir == InitJobDir /\ [][NextJobDir]_vars

\* C21: job metadata round-trips through the job directory: a load that
\* follows a write returns a record equal to the one written, and of several
\* writes to one directory the last is the one loaded.
JobInfoRoundTrip ==
    (called = "load_job_info_from_file" /\ job_info.kind = "ok") =>
        /\ loaded.kind = "ok"
        /\ DOMAIN loaded.value = DOMAIN job_info.value
        /\ \A k \in DOMAIN InfoKeys :
              loaded.value[InfoKeys[k]] = job_info.value[InfoKeys[k]]

\* a record was written over an earlier, different one and then loaded
JobInfoRoundTripWitness ==
    /\ called = "load_job_info_from_file" /\ disk0 = OldJob
    /\ job_info = Returned(JobInfoOf(12))
    /\ loaded = Returned(JobInfoOf(12))
    /\ loaded.value.number_of_sims = IntObj(12)

ManifestInit ==
    /\ \E n \in 0..MaxParams :
       \E nms \in {x \in [1..n -> Names] : CanonicalNames(x)} :
       \E vcs \in [1..n -> ValueChoices] :
          parameters = ParameterList(nms, vcs)
    /\ idx = 0 /\ dicts = <<>> /\ dheap = <<>> /\ oheap = CallerHeap
    /\ epc = "idle" /\ touched = 0
    /\ cpc = "params_info"
    /\ overwrite = FALSE /\ answers = <<>> /\ nspecs = 0 /\ printable = TRUE
    /\ failing = -1 /\ saved = 0 /\ fsops = <<>> /\ exitcode = -1
    /\ disk = CreateJobSubdirs(NoDisk)
    /\ disk0 = disk

InitManifest == ManifestInit /\ PIdle /\ UIdle
NextManifest == write_parameters_info_to_file
SpecManifest == InitManifest /\ [][NextManifest]_vars

\* the call is over
ManifestCallOver == parameters # <<>> /\ cpc \in {"job_info", "crashed"}

\* C23: for every Parameter list that expand_parameters accepts,
\* write_parameters_info_to_file succeeds and parameters.txt holds one block
\* per Parameter in input order, each with the Parameter's name and its value,
\* and with every element of an expandable sequence, in order.
ManifestComplete ==
    ManifestCallOver =>
        /\ cpc = "job_info"
        /\ Exists(disk, <<"parameters.txt">>)
        /\ LET text == disk[<<"parameters.txt">>].data
           IN  /\ Len(text) = Len(parameters)
               /\ \A i \in DOMAIN parameters :
                     /\ text[i].name = parameters[i].name
                     /\ IsExpandableSequence(parameters[i]) =>
                           text[i].listed = parameters[i].value.items
                     /\ ~parameters[i].expandable =>
                           text[i].listed = <<parameters[i].value>>


\* this run has written info.pkl: whatever the run found was removed at line
\* 141, so a file that is there afterwards is its own
InfoWritten == "rmtree" \in Range(fsops) /\ Exists(disk, <<"info.pkl">>)

\* C27: the steps after the gates run in a fixed order (remove the old
\* directory, create the subdirectories, save every Specification, write both
\* manifests, write info.pkl): in every state of a run that has written
\* info.pkl, every Specification of the batch is saved in inputs/ and both
\* manifests are written.
InfoWrittenLast ==
    InfoWritten =>
        /\ saved = nspecs
        /\ \A i \in 0..(nspecs - 1) :
              /\ Exists(disk, <<"inputs", ToString(i)>>)
              /\ disk[<<"inputs", ToString(i)>>] = File(<<"spec", ToString(i)>>)
        /\ Exists(disk, <<"specifications.txt">>)
        /\ Exists(disk, <<"parameters.txt">>)
        /\ Len(fsops) >= nspecs + 5
        /\ fsops[1] = "rmtree" /\ fsops[2] = "mkdir"
        /\ \A i \in 3..Len(fsops) : fsops[i] = "write"

\* a run that found an earlier job has just written info.pkl for a batch of
\* three Specifications
InfoWrittenLastWitness ==
    /\ cpc = "submit_file" /\ nspecs = 3 /\ disk0 = OldJob
    /\ Exists(disk, <<"info.pkl">>) /\ disk[<<"info.pkl">>] = File(Pickle(JobInfoOf(3)))

\* the objects of the caller that the input refers to
InputRefs == UNION {Refs(parameters[i].value) : i \in DOMAIN parameters}

\* C26: expand_parameters leaves its input unchanged: no step of the call
\* changes the length or the order of the Parameter list, the name, the
\* expandable flag or the value of a Parameter (for a sequence: its length and
\* its elements, in order), or the content of an object the input refers to.
InputUnchanged ==
    [][epc = "loop" =>
          /\ Len(parameters') = Len(parameters)
          /\ \A i \in DOMAIN parameters :
                /\ parameters'[i].name = parameters[i].name
                /\ parameters'[i].expandable = parameters[i].expandable
                /\ parameters'[i].value.kind = parameters[i].value.kind
                /\ parameters'[i].value.n = parameters[i].value.n
                /\ Len(parameters'[i].value.items) = Len(parameters[i].value.items)
                /\ \A j \in DOMAIN parameters[i].value.items :
                      parameters'[i].value.items[j] = parameters[i].value.items[j]
          /\ \A a \in InputRefs : oheap'[a] = oheap[a]]_vars

\* the call returned six maps made from a sequence of two objects of the caller
\* and a sequence of three numbers
InputUnchangedWitness ==
    /\ epc = "returned" /\ Len(dicts) = 6
    /\ \E i, j \in DOMAIN parameters :
          /\ parameters[i] = Parameter("a", TupleV(<<ObjV(1), ObjV(2)>>), TRUE)
          /\ parameters[j].expandable
          /\ parameters[j].value = TupleV(<<IntV(10), IntV(20), IntV(30)>>)
    /\ \A a \in DOMAIN CallerHeap : oheap[a] = CallerHeap[a]

(***************************************************************************)
(* One call of ask_for_bool, with the user at the prompt                   *)
(***************************************************************************)
\* the defaults a caller passes
Defaults ==
    {DefaultNo, StrD(<<"n", "o">>), StrD(<<"y", "e", "s">>), StrD(<<"Y", "e", "s">>),
     BoolD(TRUE), BoolD(FALSE)}

AskInit ==
    /\ apc = "asking"
    /\ ask_default \in Defaults
    /\ heard = <<>>
    /\ ask_result = "none"

\* line 147
Trimmed(input_str) == Lower(RemoveSpaces(input_str))
\* the answer is one of the words of lines 153 and 155
IsSynonym(input_str) ==
    StrD(Trimmed(input_str)) \in (TrueSynonyms \cup FalseSynonyms)

\* lines 144-161: the prompt is answered; the call returns, or the exception
\* is caught and the function calls itself with the same arguments
Prompt(input) ==
    /\ apc = "asking"
    /\ heard' = Append(heard, input)
    /\ LET outcome == ask_for_bool(input, ask_default)
       IN  IF outcome = "raise"
           THEN UNCHANGED <<apc, ask_result>>
           ELSE apc' = "returned" /\ ask_result' = outcome
    /\ UNCHANGED <<ask_default, jvars, wvars, evars, cvars, pvars>>

\* the user types one of the words
GiveSynonym == \E input \in UserInputs : IsSynonym(input) /\ Prompt(input)
\* the user types something else, or nothing
GiveOther ==
    /\ Len(heard) < MaxAnswers
    /\ \E input \in UserInputs : ~IsSynonym(input) /\ Prompt(input)

InitAsk == EIdle /\ CIdle /\ PIdle /\ JIdle /\ WIdle /\ AskInit
NextAsk == GiveSynonym \/ GiveOther
SpecAsk == InitAsk /\ [][NextAsk]_vars
\* the user gives one of the words sooner or later
SpecAskFair == SpecAsk /\ WF_vars(GiveSynonym)

\* the default read as a boolean
TrueWords ==
    {<<"t", "r", "u", "e">>, <<"t">>, <<"y", "e", "s">>, <<"y">>, <<"1">>, <<"o", "n">>}
FalseWords ==
    {<<"f", "a", "l", "s", "e">>, <<"f">>, <<"n", "o">>, <<"n">>, <<"0">>, <<"o", "f", "f">>}
DefaultAsBool(d) ==
    IF d.kind = "bool" THEN (IF d.b THEN "True" ELSE "False")
    ELSE IF Trimmed(d.s) \in TrueWords THEN "True"
    ELSE IF Trimmed(d.s) \in FalseWords THEN "False"
    ELSE "none"

\* C24: on an empty answer ask_for_bool returns the default read as a boolean:
\* False for the default 'No', True for the default True.
EmptyAnswerGivesDefault ==
    (heard # <<>> /\ Trimmed(heard[1]) = <<>> /\ DefaultAsBool(ask_default) # "none") =>
        /\ apc = "returned"
        /\ Len(heard) = 1
        /\ ask_result = DefaultAsBool(ask_default)

\* C25: whatever the user types, ask_for_bool returns True only for an answer
\* that trimmed and lower-cased is one of true, t, yes, y, 1, on, and False only
\* for one of false, f, no, n, 0, off; any other non-empty answer yields no
\* return value and the question is asked again; the call returns at the first
\* answer that is one of the words, and it returns if the user ever gives one.
ReturnsAtFirstValidAnswer ==
    /\ [](/\ \A i \in 1..(Len(heard) - 1) : ~IsSynonym(heard[i])
          /\ apc = "asking" =>
                /\ ask_result = "none"
                /\ \A i \in DOMAIN heard : Trimmed(heard[i]) \notin TrueWords \cup FalseWords
          /\ (apc = "returned" /\ Trimmed(heard[Len(heard)]) # <<>>) =>
                /\ ask_result = "True" <=> Trimmed(heard[Len(heard)]) \in TrueWords
                /\ ask_result = "False" <=> Trimmed(heard[Len(heard)]) \in FalseWords)
    /\ <>(apc = "returned")

\* the question was asked three times: an unknown word, then a word that is
\* none of the listed ones, then " Yes"
ReturnsAtFirstValidAnswerWitness ==
    /\ apc = "returned" /\ ask_result = "True"
    /\ heard = <<<<"m", "a", "y", "b", "e">>, <<"m", "a", "y", "b", "e">>, <<" ", "Y", "e", "s">>>>

(***************************************************************************)
(* Sums of potentials (compy.quantum.hydrogenic.potentials)                *)
(***************************************************************************)
\* the objects an expression is made of: a Potential, a PotentialSum with its
\* attribute potentials, and a tuple (its items are kept in the same field)
Potential(name) == [kind |-> "potential", name |-> name, potentials |-> <<>>]
TupleOf(items) == [kind |-> "tuple", name |-> "", potentials |-> items]
\* PotentialSum.__init__, lines 38-39: self.potentials = potentials
PotentialSum(potentials) == [kind |-> "sum", name |-> "", potentials |-> potentials]

\* other.potentials raises AttributeError unless other is a PotentialSum
HasPotentials(other) == other.kind = "sum"

\* Potential.__add__, lines 27-28
PotentialAdd(self, other) == PotentialSum(<<self, other>>)
\* PotentialSum.__add__, lines 50-55: other.potentials is passed as one
\* argument, after the unpacked self.potentials
PotentialSumAdd(self, other) ==
    IF HasPotentials(other)
    THEN PotentialSum(Append(self.potentials, TupleOf(other.potentials)))
    ELSE PotentialSum(Append(self.potentials, other))
\* self + other
Add(self, other) ==
    IF self.kind = "sum" THEN PotentialSumAdd(self, other) ELSE PotentialAdd(self, other)

\* the potentials of the program
Potentials == {Potential("a"), Potential("b"), Potential("c"), Potential("d")}
\* the number of potentials in an operand
Size(term) == IF term.kind = "sum" THEN Len(term.potentials) ELSE 1
RECURSIVE TotalSize(_)
TotalSize(ts) == IF ts = <<>> THEN 0 ELSE Size(ts[1]) + TotalSize(Tail(ts))

SumInit ==
    /\ lhs \in Potentials
    /\ terms = <<lhs>>

\* lhs + p for a Potential p
AddPotential ==
    /\ TotalSize(terms) < MaxTerms
    /\ \E p \in Potentials :
          /\ lhs' = Add(lhs, p)
          /\ terms' = Append(terms, p)
    /\ UNCHANGED <<evars, cvars, pvars, jvars, avars, tvars, hvars>>

\* lhs + (p + q) for Potentials p and q
AddSum ==
    /\ TotalSize(terms) + 1 < MaxTerms
    /\ \E p, q \in Potentials :
          /\ lhs' = Add(lhs, PotentialAdd(p, q))
          /\ terms' = Append(terms, PotentialAdd(p, q))
    /\ UNCHANGED <<evars, cvars, pvars, jvars, avars, tvars, hvars>>

InitSum == EIdle /\ CIdle /\ PIdle /\ JIdle /\ AIdle /\ TIdle /\ HIdle /\ SumInit
NextSum == AddPotential \/ AddSum
SpecSum == InitSum /\ [][NextSum]_vars

\* the potentials of the operands, from left to right
RECURSIVE Flat(_)
Flat(ts) ==
    IF ts = <<>> THEN <<>>
    ELSE (IF ts[1].kind = "sum" THEN ts[1].potentials ELSE <<ts[1]>>) \o Flat(Tail(ts))

\* the expression is a PotentialSum to which operands were added
AddedToSum == Len(terms) >= 3 /\ terms[2].kind = "potential"

\* C28: adding to a PotentialSum gives a flat PotentialSum: (a + b) + c has the
\* members (a, b, c) and (a + b) + (c + d) has the members (a, b, c, d).
SumIsFlat ==
    AddedToSum =>
        /\ lhs.kind = "sum"
        /\ lhs.potentials = Flat(terms)

(***************************************************************************)
(* One BlockTimer (simulacra.utils.timing)                                 *)
(***************************************************************************)
At(t) == [kind |-> "datetime", t |-> t]
Delta(t) == [kind |-> "timedelta", t |-> t]
Secs(t) == [kind |-> "float", t |-> t]

\* lines 21-28: BlockTimer(); the clocks start anywhere
TimerInit ==
    /\ wall_time_start = None /\ wall_time_end = None /\ wall_time_elapsed = None
    /\ proc_time_start = None /\ proc_time_end = None /\ proc_time_elapsed = None
    /\ now = 0 /\ proc = 0
    /\ inside = FALSE /\ entered = -1 /\ exited = -1
    /\ tcalled = "__init__" /\ printed = NoReport

\* time passes; the process clock runs no faster than the wall clock
Tick ==
    /\ now < MaxClock
    /\ now' = now + 1
    /\ proc' \in {proc, proc + 1}
    /\ UNCHANGED <<wall_time_start, wall_time_end, wall_time_elapsed,
                   proc_time_start, proc_time_end, proc_time_elapsed,
                   inside, entered, exited, tcalled, printed>>
    /\ UNCHANGED <<evars, cvars, pvars, jvars, avars, svars, hvars>>

\* lines 30-34: `with timer:` is entered
Enter ==
    /\ ~inside
    /\ wall_time_start' = At(now)
    /\ proc_time_start' = Secs(proc)
    /\ inside' = TRUE /\ entered' = now /\ tcalled' = "__enter__"
    /\ UNCHANGED <<wall_time_end, wall_time_elapsed, proc_time_end, proc_time_elapsed,
                   now, proc, exited, printed>>
    /\ UNCHANGED <<evars, cvars, pvars, jvars, avars, svars, hvars>>

\* lines 36-41: the with block is left, normally or by an exception
Exit ==
    /\ inside
    /\ proc_time_end' = Secs(proc)
    /\ wall_time_end' = At(now)
    /\ wall_time_elapsed' = Delta(now - wall_time_start.t)
    /\ proc_time_elapsed' = Delta(proc - proc_time_start.t)
    /\ inside' = FALSE /\ exited' = now /\ tcalled' = "__exit__"
    /\ UNCHANGED <<wall_time_start, proc_time_start, now, proc, entered, printed>>
    /\ UNCHANGED <<evars, cvars, pvars, jvars, avars, svars, hvars>>

\* lines 43-47: what str(timer) reports
Str ==
    IF wall_time_end = None
    THEN [running |-> TRUE, start |-> wall_time_start, end |-> None,
          elapsed |-> None, process |-> None]
    ELSE [running |-> FALSE, start |-> wall_time_start, end |-> wall_time_end,
          elapsed |-> wall_time_elapsed, process |-> proc_time_elapsed]

\* print(timer)
PrintTimer ==
    /\ printed' = Str
    /\ tcalled' = "__str__"
    /\ UNCHANGED <<wall_time_start, wall_time_end, wall_time_elapsed,
                   proc_time_start, proc_time_end, proc_time_elapsed,
                   now, proc, inside, entered, exited>>
    /\ UNCHANGED <<evars, cvars, pvars, jvars, avars, svars, hvars>>

InitTimer == EIdle /\ CIdle /\ PIdle /\ JIdle /\ AIdle /\ SIdle /\ HIdle /\ TimerInit
NextTimer == Tick \/ Enter \/ Exit \/ PrintTimer
SpecTimer == InitTimer /\ [][NextTimer]_vars

\* C29: whatever the sequence of enter and exit calls on one BlockTimer, a
\* second with block on the same timer included, printing the timer reports
\* 'still running' exactly while the program is inside a with block of the
\* timer, and after an exit it reports the start, the end and the elapsed time
\* of the block just left, the elapsed time being the end minus the start.
\* (Stated for a timer that has been entered at least once.)
ReportsRunningWhileInside ==
    (tcalled = "__str__" /\ entered >= 0) =>
        /\ printed.running <=> inside
        /\ (~inside /\ exited >= 0) =>
              /\ printed.start = At(entered)
              /\ printed.end = At(exited)
              /\ printed.elapsed = Delta(exited - entered)

(***************************************************************************)
(* SphericalHarmonic.__init__ (simulacra.math)                             *)
(***************************************************************************)
\* abs(n)
Abs(n) == IF n < 0 THEN -n ELSE n

\* faulty variant of Legal: m is compared without abs
Legal_noabs(l, m) == m <= l

\* the test of line 38: abs(m) <= l
Legal(l, m) == Abs(m) <= l

\* the exception of line 39
IllegalSphericalHarmonic == "IllegalSphericalHarmonic"
\* an instance, by its slots _l and _m
SphericalHarmonic(l, m) == [l |-> l, m |-> m]

\* lines 26-40: SphericalHarmonic(l, m) is called with two integers
Construct ==
    /\ \E l, m \in (-MaxL)..MaxL :
          IF ~Legal(l, m)
          THEN /\ attempt' = [l |-> l, m |-> m, outcome |-> IllegalSphericalHarmonic]
               /\ UNCHANGED harmonics
          ELSE /\ Cardinality(harmonics \cup {SphericalHarmonic(l, m)}) <= MaxInstances
               /\ attempt' = [l |-> l, m |-> m, outcome |-> "constructed"]
               /\ harmonics' = harmonics \cup {SphericalHarmonic(l, m)}
    /\ UNCHANGED <<evars, cvars, pvars, jvars, avars, svars, tvars>>

\* the program drops an instance
Discard ==
    /\ \E h \in harmonics : harmonics' = harmonics \ {h}
    /\ UNCHANGED <<attempt, evars, cvars, pvars, jvars, avars, svars, tvars>>

InitHarmonic == EIdle /\ CIdle /\ PIdle /\ JIdle /\ AIdle /\ SIdle /\ TIdle /\ HIdle
NextHarmonic == Construct \/ Discard
SpecHarmonic == InitHarmonic /\ [][NextHarmonic]_vars

\* C30: SphericalHarmonic(l, m) is constructed if and only if |m| <= l; every
\* other pair of integers, every pair with l < 0 included, raises
\* IllegalSphericalHarmonic; so every instance has l >= 0 and |m| <= l.
ConstructedIffLegal ==
    /\ attempt.outcome # "none" =>
          /\ attempt.outcome = "constructed" <=>
                (-attempt.l <= attempt.m /\ attempt.m <= attempt.l)
          /\ attempt.outcome # "constructed" => attempt.outcome = IllegalSphericalHarmonic
          /\ attempt.l < 0 => attempt.outcome = IllegalSphericalHarmonic
    /\ \A h \in harmonics : h.l >= 0 /\ -h.l <= h.m /\ h.m <= h.l

\* Y_(2,-2) and Y_(0,0) exist and SphericalHarmonic(-1, 0) has just raised
ConstructedIffLegalWitness ==
    /\ harmonics = {SphericalHarmonic(2, -2), SphericalHarmonic(0, 0)}
    /\ attempt = [l |-> -1, m |-> 0, outcome |-> IllegalSphericalHarmonic]

====
